---------------------------- MODULE Spec2Model ----------------------------
(***************************************************************************)
(* Refresh-token lifecycle of MongoDB-Auth: RefreshTokenManager            *)
(* (src/auth/token_manager.py) and the password-reset flow of              *)
(* Authentication (src/auth/authentication.py), as state machines over the *)
(* two MongoDB collections they share.  Every store call is one atomic     *)
(* step; a handler that makes several store calls is several steps, so     *)
(* that request threads and the sweeper interleave between them.           *)
(***************************************************************************)
EXTENDS Integers, FiniteSets, Sequences, TLC

(***************************************************************************)
(* Bounds of the model.                                                    *)
(***************************************************************************)
\* how many refresh tokens create_refresh_token may insert in one behaviour
MaxTokens == 3
\* how many times the clock advances in one behaviour
MaxTicks == 2
\* how many password-reset tokens request_password_reset may insert
MaxResets == 2
\* next to the password-reset flow: how many logins, and how many hours pass
MaxSessions == 2
MaxResetTicks == 1
\* next to the session lists: how many hours pass
MaxSessionTicks == 1
\* how many loop threads start() may create
MaxLoops == 2

(***************************************************************************)
(* Program constants.  The clock counts hours.                             *)
(***************************************************************************)
HOURS_PER_DAY == 24
\* timedelta(days=30), create_refresh_token
TOKEN_DAYS == 30
\* timedelta(days=7), cleanup_expired_tokens
RETENTION_DAYS == 7
\* timedelta(hours=1), request_password_reset
RESET_HOURS == 1

Days(n) == n * HOURS_PER_DAY

\* the amounts by which the clock advances: an hour, the retention window,
\* the life of a refresh token
TickSteps == {1, Days(RETENTION_DAYS), Days(TOKEN_DAYS)}

Threads == {"t1", "t2"}
Users == {"u1", "u2"}
Passwords == {"p0", "p1", "p2"}
\* request_info["ip_address"]: the addresses requests come from
Ips == {"ip1", "ip2"}
Tokens == 1..MaxTokens
ResetTokens == 1..MaxResets

\* a field a document does not have
NoTime == -1
NoToken == 0

VARIABLES
    now,            \* datetime.utcnow(), in hours
    ticks,          \* how often the clock has advanced
    faulty,         \* whether store calls may raise in this behaviour
    unique_index,   \* whether _ensure_indexes created the unique index on token
    refresh_tokens, \* the collection database["refresh_tokens"]
    issued,         \* how many refresh tokens have been inserted
    th,             \* the request threads: the call each is in
    ret,            \* what the last step returned to its caller, if it returned
    sw,             \* the sweeper: the cleanup_expired_tokens call it is in
    usuarios,       \* the collection db_manager.usuarios: user -> password hash
    reset_tokens,   \* the collection db_manager.reset_tokens
    resets,         \* how many reset tokens have been inserted
    rotations,      \* history: per token, how many validate_and_rotate_token
                    \* calls returned valid for it
    revokedOk,      \* history: tokens a revoke_token returned True for
    redeemedOk,     \* history: reset tokens a reset_password returned success for
    running,        \* TokenCleanupScheduler.running
    thread,         \* TokenCleanupScheduler.thread: the loop thread last created
    loops,          \* the threads running _cleanup_loop: where each is
    ctl             \* the control threads: the start() or stop() call each is in

vars == <<now, ticks, faulty, unique_index, refresh_tokens, issued, th, ret,
          sw, usuarios, reset_tokens, resets, rotations, revokedOk, redeemedOk,
          running, thread, loops, ctl>>

envVars == <<faulty, unique_index>>
schedVars == <<running, thread, loops, ctl>>
tokenVars == <<refresh_tokens, issued>>
resetVars == <<usuarios, reset_tokens, resets>>
histVars == <<rotations, revokedOk, redeemedOk>>

(***************************************************************************)
(* Calls and their results.  A request thread holds the locals of the call *)
(* it is in; the step that makes a call's last store call also returns,    *)
(* and ret shows that return until the next step.                          *)
(***************************************************************************)
\* the dictionary get_token_stats starts from
NoStats == [active |-> 0, inactive |-> 0, total |-> 0]

NoResult ==
    [valid |-> FALSE, error |-> "", user_id |-> "", new_token |-> NoToken,
     ok |-> FALSE, count |-> 0, raised |-> FALSE, message |-> "",
     sessions |-> <<>>, stats |-> NoStats, status |-> 0, cleared |-> FALSE]

\* a request thread between calls
IdleThread ==
    [op |-> "none", pc |-> "idle", token |-> NoToken, user |-> "",
     found |-> 0, password |-> "", snap |-> {}, ip |-> ""]

NoReturn == [op |-> "none", token |-> NoToken, user |-> "", res |-> NoResult]

Return(op, token, user, res) ==
    [op |-> op, token |-> token, user |-> user, res |-> res]

\* the return of the call thread t is in
Returns(t, res) == Return(th[t].op, th[t].token, th[t].user, res)

IdleSweeper == [pc |-> "idle", expired_count |-> 0]

\* the outcomes of one store call: it returns, or (in a faulty behaviour) raises
StoreOutcomes == IF faulty THEN {"ok", "raise"} ELSE {"ok"}

CanStart(t) == th[t].pc = "idle"

Call(op, pc, token, user) ==
    [IdleThread EXCEPT !.op = op, !.pc = pc, !.token = token, !.user = user]

(***************************************************************************)
(* The refresh_tokens collection.                                          *)
(***************************************************************************)
\* the document create_refresh_token builds: token_data
TokenData(token, user_id, request_info) ==
    [id |-> issued + 1, token |-> token, user_id |-> user_id,
     expires_at |-> now + Days(TOKEN_DAYS), created_at |-> now,
     last_used |-> now, is_active |-> TRUE,
     session_info |-> [ip_address |-> request_info],
     usage_count |-> 0,
     revoked_at |-> NoTime, revocation_reason |-> "",
     rotated_at |-> NoTime, rotation_reason |-> ""]

\* secrets.token_urlsafe(48): a value never drawn before; in a faulty
\* behaviour the draw may also collide with a token of the collection
DrawnTokens ==
    {issued + 1} \cup (IF faulty THEN {r.token : r \in refresh_tokens} ELSE {})

\* the unique index on "token", where _ensure_indexes created it: insert_one
\* raises DuplicateKeyError
DuplicateKey(token) ==
    unique_index /\ \E r \in refresh_tokens : r.token = token

\* update_one and find_one act on one of the documents their filter matches
OneOf(matched) == IF matched = {} THEN {{}} ELSE {{r} : r \in matched}

\* mutant: the lookup without the is_active filter
FindActiveAnyState(token) ==
    {r \in refresh_tokens : r.token = token /\ r.expires_at > now}

\* mutant: the lookup with "$gte" for "$gt"
FindActiveInclusive(token) ==
    {r \in refresh_tokens :
        r.token = token /\ r.is_active /\ r.expires_at >= now}

\* find_one({"token", "is_active": True, "expires_at": {"$gt": utcnow()}})
FindActive(token) ==
    {r \in refresh_tokens :
        r.token = token /\ r.is_active /\ r.expires_at > now}

\* mutant: the update matches no document
MarkRotatedNoMatch(id) == refresh_tokens

\* mutant: the update flips is_active instead of clearing it
MarkRotatedToggle(id) ==
    {IF r.id = id THEN [r EXCEPT !.is_active = ~r.is_active, !.rotated_at = now,
                                 !.rotation_reason = "normal_rotation"]
                  ELSE r : r \in refresh_tokens}

\* mutant: the update also renews the expiry of the old document
MarkRotatedExtend(id) ==
    {IF r.id = id THEN [r EXCEPT !.is_active = FALSE, !.rotated_at = now,
                                 !.rotation_reason = "normal_rotation",
                                 !.expires_at = now + Days(TOKEN_DAYS)]
                  ELSE r : r \in refresh_tokens}

\* mutant: the lookup refuses a request from another address than the one
\* the session was created from
AcceptedSameIp(token, request_info) ==
    {r \in FindActive(token) : r.session_info.ip_address = request_info}

\* the documents validate_and_rotate_token goes on with: what the lookup
\* finds; a change of address is logged and nothing else
Accepted(token, request_info) == FindActive(token)

\* the check for suspicious activity: whether the warning is logged
IpChanged(token_data, request_info) ==
    token_data.session_info.ip_address # request_info

\* mutant: the update reaches every document of the token's user
MarkRotatedOfUser(id) ==
    {IF \E q \in refresh_tokens : q.id = id /\ q.user_id = r.user_id
        THEN [r EXCEPT !.is_active = FALSE, !.rotated_at = now,
                       !.rotation_reason = "normal_rotation"]
        ELSE r : r \in refresh_tokens}

\* update_one({"_id": id}, {"$set": {is_active, rotated_at, rotation_reason}})
MarkRotated(id) ==
    {IF r.id = id
        THEN [r EXCEPT !.is_active = FALSE, !.rotated_at = now,
                       !.rotation_reason = "normal_rotation"]
        ELSE r : r \in refresh_tokens}

\* mutant: the filter without is_active, as in examples/stateful_refresh_tokens.py
RevokeMatchAnyState(token) == {r \in refresh_tokens : r.token = token}

\* mutant: the filter on the token's user instead of the token
RevokeMatchUser(token) ==
    {r \in refresh_tokens :
        /\ r.is_active
        /\ \E q \in refresh_tokens : q.token = token /\ q.user_id = r.user_id}

\* the documents update_one({"token": token, "is_active": True}, ...) matches
RevokeMatch(token) ==
    {r \in refresh_tokens : r.token = token /\ r.is_active}

\* the documents update_many({"user_id": user_id, "is_active": True}, ...) matches
RevokeAllMatch(user_id) ==
    {r \in refresh_tokens : r.user_id = user_id /\ r.is_active}

\* {"$set": {is_active: False, revoked_at: utcnow(), revocation_reason: reason}}
\* applied to the documents of matched
MarkRevoked(matched, reason) ==
    {IF r \in matched
        THEN [r EXCEPT !.is_active = FALSE, !.revoked_at = now,
                       !.revocation_reason = reason]
        ELSE r : r \in refresh_tokens}

\* delete_many({"expires_at": {"$lt": utcnow()}})
ExpiredMatch == {r \in refresh_tokens : r.expires_at < now}

\* mutant: the second delete without the cutoff
OldRevokedMatchNoCutoff ==
    {r \in refresh_tokens : ~r.is_active /\ r.revoked_at # NoTime}

\* delete_many({"is_active": False, "revoked_at": {"$lt": utcnow() - 7 days}});
\* a document without the field revoked_at does not match
OldRevokedMatch ==
    {r \in refresh_tokens :
        /\ ~r.is_active
        /\ r.revoked_at # NoTime
        /\ r.revoked_at < now - Days(RETENTION_DAYS)}

(***************************************************************************)
(* RefreshTokenManager.create_refresh_token, called by the login route:    *)
(* one insert_one.                                                         *)
(***************************************************************************)
\* whether insert_one(token_data) stores the document
Stored(token, outcome) == outcome = "ok" /\ ~DuplicateKey(token)

\* mutant: the document is written although the call fails
InsertedBeforeFailure(token, user_id, request_info, outcome) ==
    IF ~DuplicateKey(token)
        THEN refresh_tokens \cup {TokenData(token, user_id, request_info)}
        ELSE refresh_tokens

\* the collection after create_refresh_token(user_id) drew token
Inserted(token, user_id, request_info, outcome) ==
    IF Stored(token, outcome)
        THEN refresh_tokens \cup {TokenData(token, user_id, request_info)}
        ELSE refresh_tokens

CreateFailed ==
    [NoResult EXCEPT !.raised = TRUE,
                     !.message = "Failed to create refresh token"]

CreateRefreshToken(t, user_id, request_info) ==
    /\ CanStart(t)
    /\ issued < MaxTokens
    /\ \E outcome \in StoreOutcomes, token \in DrawnTokens :
          /\ refresh_tokens' = Inserted(token, user_id, request_info, outcome)
          /\ issued' = IF Stored(token, outcome) THEN issued + 1 ELSE issued
          /\ ret' = Return("create_refresh_token", NoToken, user_id,
                       IF Stored(token, outcome)
                           THEN [NoResult EXCEPT !.new_token = token]
                           ELSE CreateFailed)
    /\ UNCHANGED <<now, ticks, envVars, schedVars, th, sw, resetVars, histVars>>

(***************************************************************************)
(* RefreshTokenManager.validate_and_rotate_token: find_one, update_one,    *)
(* then create_refresh_token's insert_one.                                 *)
(***************************************************************************)
Rejected == [NoResult EXCEPT !.error = "Invalid or expired token"]
ValidationFailed == [NoResult EXCEPT !.error = "Token validation failed"]

\* lines 88-98: the lookup; no document ends the call
RotateFind(t, token, request_info) ==
    /\ CanStart(t)
    /\ \E outcome \in StoreOutcomes :
          LET hit == Accepted(token, request_info)
              op == "validate_and_rotate_token"
          IN  IF outcome = "raise"
                THEN /\ ret' = Return(op, token, "", ValidationFailed)
                     /\ UNCHANGED th
              ELSE IF hit = {}
                THEN /\ ret' = Return(op, token, "", Rejected)
                     /\ UNCHANGED th
              ELSE \E token_data \in hit :
                       /\ th' = [th EXCEPT ![t] =
                             [Call(op, "update", token, token_data.user_id)
                                 EXCEPT !.found = token_data.id,
                                        !.ip = request_info]]
                       /\ ret' = NoReturn
    /\ UNCHANGED <<now, ticks, envVars, schedVars, tokenVars, sw, resetVars, histVars>>

\* lines 105-115: the old document is marked by its _id
RotateUpdate(t) ==
    /\ th[t].op = "validate_and_rotate_token"
    /\ th[t].pc = "update"
    /\ \E outcome \in StoreOutcomes :
          IF outcome = "raise"
              THEN /\ th' = [th EXCEPT ![t] = IdleThread]
                   /\ ret' = Returns(t, ValidationFailed)
                   /\ UNCHANGED refresh_tokens
              ELSE /\ refresh_tokens' = MarkRotated(th[t].found)
                   /\ th' = [th EXCEPT ![t].pc = "insert"]
                   /\ ret' = NoReturn
    /\ UNCHANGED <<now, ticks, envVars, schedVars, issued, sw, resetVars, histVars>>

\* lines 117-130: create_refresh_token and the return
RotateInsert(t) ==
    /\ th[t].op = "validate_and_rotate_token"
    /\ th[t].pc = "insert"
    /\ issued < MaxTokens
    /\ \E outcome \in StoreOutcomes, token \in DrawnTokens :
          /\ refresh_tokens' = Inserted(token, th[t].user, th[t].ip, outcome)
          /\ issued' = IF Stored(token, outcome) THEN issued + 1 ELSE issued
          /\ ret' = Returns(t,
                       IF Stored(token, outcome)
                           THEN [NoResult EXCEPT !.valid = TRUE,
                                    !.user_id = th[t].user, !.new_token = token]
                           ELSE ValidationFailed)
          /\ rotations' =
                IF Stored(token, outcome)
                    THEN [rotations EXCEPT ![th[t].token] = @ + 1]
                    ELSE rotations
    /\ th' = [th EXCEPT ![t] = IdleThread]
    /\ UNCHANGED <<now, ticks, envVars, schedVars, sw, resetVars, revokedOk, redeemedOk>>

(***************************************************************************)
(* RefreshTokenManager.revoke_token and revoke_all_user_tokens: one        *)
(* conditional update each.                                                *)
(***************************************************************************)
RevokeToken(t, token, reason) ==
    /\ CanStart(t)
    /\ \E outcome \in StoreOutcomes :
          \E matched \in (IF outcome = "ok" THEN OneOf(RevokeMatch(token))
                                            ELSE {{}}) :
              /\ refresh_tokens' = MarkRevoked(matched, reason)
              /\ ret' = Return("revoke_token", token, "",
                           [NoResult EXCEPT !.ok = (matched # {})])
              /\ revokedOk' = IF matched # {} THEN revokedOk \cup {token}
                                              ELSE revokedOk
    /\ UNCHANGED <<now, ticks, envVars, schedVars, issued, th, sw, resetVars, rotations,
                   redeemedOk>>

RevokeAllUserTokens(t, user_id, reason) ==
    /\ CanStart(t)
    /\ \E outcome \in StoreOutcomes :
          LET matched == IF outcome = "ok" THEN RevokeAllMatch(user_id) ELSE {}
          IN  /\ refresh_tokens' = MarkRevoked(matched, reason)
              /\ ret' = Return("revoke_all_user_tokens", NoToken, user_id,
                           [NoResult EXCEPT !.count = Cardinality(matched)])
    /\ UNCHANGED <<now, ticks, envVars, schedVars, issued, th, sw, resetVars, histVars>>

(***************************************************************************)
(* RefreshTokenManager.get_user_sessions: one find with a projection and a *)
(* sort.                                                                   *)
(***************************************************************************)
\* the projection get_user_sessions passes to find; "id" stands for "_id"
SessionsProjection ==
    [token |-> 0, session_info |-> 1, created_at |-> 1, last_used |-> 1,
     usage_count |-> 1, id |-> 1]

\* MongoDB refuses a projection that both includes and excludes fields
\* other than _id: the find raises OperationFailure
MixedProjection(projection) ==
    \E f, g \in DOMAIN projection \ {"id"} :
        projection[f] = 0 /\ projection[g] = 1

\* the fields of document r a valid projection returns
Projected(r, projection) ==
    IF \E f \in DOMAIN projection \ {"id"} : projection[f] = 1
        THEN {f \in DOMAIN r :
                 \/ f \in DOMAIN projection /\ projection[f] = 1
                 \/ f = "id" /\ f \notin DOMAIN projection}
        ELSE {f \in DOMAIN r :
                 f \notin DOMAIN projection \/ projection[f] # 0}

Project(r, projection) == [f \in Projected(r, projection) |-> r[f]]

\* find({"user_id": user_id, "is_active": True})
SessionsMatch(user_id) ==
    {r \in refresh_tokens : r.user_id = user_id /\ r.is_active}

\* .sort("last_used", -1): the orders of matched with last_used descending
SortedByLastUsed(matched) ==
    {seq \in [1..Cardinality(matched) -> matched] :
        /\ \A i, j \in DOMAIN seq : i # j => seq[i] # seq[j]
        /\ \A i, j \in DOMAIN seq :
              i < j => seq[i].last_used >= seq[j].last_used}

\* what list(find(filter, projection).sort(...)) may return, or {} where
\* the store raises
SessionLists(user_id, outcome) ==
    IF outcome = "raise" \/ MixedProjection(SessionsProjection)
        THEN {}
        ELSE {[i \in DOMAIN seq |-> Project(seq[i], SessionsProjection)] :
                 seq \in SortedByLastUsed(SessionsMatch(user_id))}

\* lines 181-198: the list, or [] from the except branch
GetUserSessions(t, user_id) ==
    /\ CanStart(t)
    /\ \E outcome \in StoreOutcomes :
          LET lists == SessionLists(user_id, outcome)
              op == "get_user_sessions"
          IN  IF lists = {}
                THEN ret' = Return(op, NoToken, user_id, NoResult)
                ELSE \E sessions \in lists :
                        ret' = Return(op, NoToken, user_id,
                                  [NoResult EXCEPT !.sessions = sessions])
    /\ UNCHANGED <<now, ticks, envVars, schedVars, tokenVars, th, sw, resetVars, histVars>>

(***************************************************************************)
(* The routes of init_auth_routes that answer for the token manager: what  *)
(* the client is sent for a result of the call.                            *)
(***************************************************************************)
\* login: create_cookie_response with the tokens, or the except branch
LoginResponse(result) ==
    IF result.raised
        THEN [status |-> 500, message |-> "Internal server error",
              refresh_cookie |-> NoToken]
        ELSE [status |-> 200, message |-> "Login successful",
              refresh_cookie |-> result.new_token]

\* refresh: 401 with result.get("error", ...) unless result["valid"]
RefreshResponse(result) ==
    IF ~result.valid
        THEN [status |-> 401,
              message |-> IF result.error # "" THEN result.error
                                               ELSE "Invalid refresh token",
              refresh_cookie |-> NoToken]
        ELSE [status |-> 200, message |-> "Token refreshed successfully",
              refresh_cookie |-> result.new_token]

(***************************************************************************)
(* RefreshTokenManager.cleanup_expired_tokens, run by the sweeper: two     *)
(* delete_many calls.                                                      *)
(***************************************************************************)
Cleaned(n) ==
    Return("cleanup_expired_tokens", NoToken, "", [NoResult EXCEPT !.count = n])

CleanupExpired ==
    /\ sw.pc = "idle"
    /\ \E outcome \in StoreOutcomes :
          IF outcome = "raise"
              THEN /\ ret' = Cleaned(0)
                   /\ UNCHANGED <<refresh_tokens, sw>>
              ELSE /\ refresh_tokens' = refresh_tokens \ ExpiredMatch
                   /\ sw' = [pc |-> "revoked",
                             expired_count |-> Cardinality(ExpiredMatch)]
                   /\ ret' = NoReturn
    /\ UNCHANGED <<now, ticks, envVars, schedVars, issued, th, resetVars, histVars>>

CleanupRevoked ==
    /\ sw.pc = "revoked"
    /\ \E outcome \in StoreOutcomes :
          IF outcome = "raise"
              THEN /\ ret' = Cleaned(0)
                   /\ UNCHANGED refresh_tokens
              ELSE /\ refresh_tokens' = refresh_tokens \ OldRevokedMatch
                   /\ ret' = Cleaned(sw.expired_count
                                        + Cardinality(OldRevokedMatch))
    /\ sw' = IdleSweeper
    /\ UNCHANGED <<now, ticks, envVars, schedVars, issued, th, resetVars, histVars>>

\* d hours pass
TickBy(d) ==
    /\ ticks < MaxTicks
    /\ now' = now + d
    /\ ticks' = ticks + 1
    /\ ret' = NoReturn
    /\ UNCHANGED <<envVars, schedVars, tokenVars, th, sw, resetVars, histVars>>

Tick == \E d \in TickSteps : TickBy(d)

(***************************************************************************)
(* Authentication.request_password_reset and reset_password over the       *)
(* collections usuarios and reset_tokens.  An email names its user; the    *)
(* email "nobody" belongs to no user.                                      *)
(***************************************************************************)
Emails == Users \cup {"nobody"}

\* hash_password: bcrypt.hashpw over the password
HashPassword(password) == <<"bcrypt", password>>

GenericMessage ==
    "If an account with that email exists, a reset link has been sent"

\* the document request_password_reset builds: token_data
ResetData(token, user_id) ==
    [id |-> token, token |-> token, user_id |-> user_id,
     expires_at |-> now + RESET_HOURS, used |-> FALSE, used_at |-> NoTime,
     created_at |-> now]

\* mutant: the lookup without the used filter
FindResetAnyUse(token) ==
    {r \in reset_tokens : r.token = token /\ r.expires_at > now}

\* mutant: the lookup accepts a token at the moment it expires
FindResetInclusive(token) ==
    {r \in reset_tokens :
        r.token = token /\ ~r.used /\ r.expires_at >= now}

\* find_one({"token", "used": False, "expires_at": {"$gt": utcnow()}})
FindReset(token) ==
    {r \in reset_tokens :
        r.token = token /\ ~r.used /\ r.expires_at > now}

\* update_one({"_id": id}, {"$set": {"used": True, "used_at": utcnow()}})
MarkUsed(id) ==
    {IF r.id = id THEN [r EXCEPT !.used = TRUE, !.used_at = now] ELSE r :
        r \in reset_tokens}

\* mutant: the delete without a filter
PriorResetsOfAll(user_id) == reset_tokens

\* delete_many({"user_id": user["_id"]})
PriorResets(user_id) == {r \in reset_tokens : r.user_id = user_id}

\* {"success": True, "message": ...}, the result without the key reset_token
RequestAccepted == [NoResult EXCEPT !.ok = TRUE, !.message = GenericMessage]

\* the route /request-password-reset: jsonify(result), 200
RequestResetResponse(result) == [status |-> 200, body |-> result]

RequestFailed ==
    [NoResult EXCEPT !.message = "Password reset request failed"]

\* lines 122-144: the user lookup and delete_many({"user_id": user["_id"]})
RequestDelete(t, email) ==
    /\ CanStart(t)
    /\ \E outcome \in StoreOutcomes :
          LET op == "request_password_reset"
          IN  IF outcome = "raise"
                THEN /\ ret' = Return(op, NoToken, email, RequestFailed)
                     /\ UNCHANGED <<th, reset_tokens>>
              ELSE IF email \notin DOMAIN usuarios
                THEN /\ ret' = Return(op, NoToken, email, RequestAccepted)
                     /\ UNCHANGED <<th, reset_tokens>>
                ELSE /\ th' = [th EXCEPT ![t] =
                           Call(op, "insert", NoToken, email)]
                     /\ reset_tokens' = reset_tokens \ PriorResets(email)
                     /\ ret' = NoReturn
    /\ UNCHANGED <<now, ticks, envVars, schedVars, tokenVars, sw, usuarios, resets,
                   histVars>>

\* lines 146-161: insert_one(token_data) and the return
RequestInsert(t) ==
    /\ th[t].op = "request_password_reset"
    /\ th[t].pc = "insert"
    /\ resets < MaxResets
    /\ \E outcome \in StoreOutcomes :
          IF outcome = "raise"
              THEN /\ ret' = Returns(t, RequestFailed)
                   /\ UNCHANGED <<reset_tokens, resets>>
              ELSE /\ reset_tokens' =
                         reset_tokens \cup {ResetData(resets + 1, th[t].user)}
                   /\ resets' = resets + 1
                   /\ ret' = Returns(t,
                         [RequestAccepted EXCEPT !.new_token = resets + 1])
    /\ th' = [th EXCEPT ![t] = IdleThread]
    /\ UNCHANGED <<now, ticks, envVars, schedVars, tokenVars, sw, usuarios, histVars>>

ResetFailed == [NoResult EXCEPT !.message = "Password reset failed"]
ResetInvalid == [NoResult EXCEPT !.message = "Invalid or expired reset token"]
ResetNotUpdated == [NoResult EXCEPT !.message = "Failed to update password"]
ResetSucceeded(count) ==
    [NoResult EXCEPT !.ok = TRUE, !.count = count,
                     !.message = "Password reset successful"]

\* the refresh tokens of user_id that are active
ActiveIds(user_id) ==
    {r.id : r \in {q \in refresh_tokens : q.user_id = user_id /\ q.is_active}}

\* lines 173-182: the lookup of the reset token
ResetFind(t, token, new_password) ==
    /\ CanStart(t)
    /\ \E outcome \in StoreOutcomes :
          LET hit == FindReset(token)
              op == "reset_password"
          IN  IF outcome = "raise"
                THEN /\ ret' = Return(op, token, "", ResetFailed)
                     /\ UNCHANGED th
              ELSE IF hit = {}
                THEN /\ ret' = Return(op, token, "", ResetInvalid)
                     /\ UNCHANGED th
              ELSE LET reset_data == CHOOSE r \in hit : TRUE
                   IN  /\ th' = [th EXCEPT ![t] =
                             [Call(op, "password", token, reset_data.user_id)
                                 EXCEPT !.found = reset_data.id,
                                        !.password = new_password,
                                        !.snap = ActiveIds(reset_data.user_id)]]
                       /\ ret' = NoReturn
    /\ UNCHANGED <<now, ticks, envVars, schedVars, tokenVars, sw, resetVars, histVars>>

\* lines 184-193, 210-211: usuarios.update_one sets the new hash;
\* modified_count is 0 when no user has the _id
ResetPassword(t) ==
    /\ th[t].op = "reset_password"
    /\ th[t].pc = "password"
    /\ \E outcome \in StoreOutcomes :
          IF outcome = "raise"
              THEN /\ th' = [th EXCEPT ![t] = IdleThread]
                   /\ ret' = Returns(t, ResetFailed)
                   /\ UNCHANGED usuarios
              ELSE IF th[t].user \notin DOMAIN usuarios
              THEN /\ th' = [th EXCEPT ![t] = IdleThread]
                   /\ ret' = Returns(t, ResetNotUpdated)
                   /\ UNCHANGED usuarios
              ELSE /\ usuarios' = [usuarios EXCEPT ![th[t].user] =
                                      HashPassword(th[t].password)]
                   /\ th' = [th EXCEPT ![t].pc = "used"]
                   /\ ret' = NoReturn
    /\ UNCHANGED <<now, ticks, envVars, schedVars, tokenVars, sw, reset_tokens, resets,
                   histVars>>

\* lines 194-198: the reset token is marked used, by its _id
ResetMarkUsed(t) ==
    /\ th[t].op = "reset_password"
    /\ th[t].pc = "used"
    /\ \E outcome \in StoreOutcomes :
          IF outcome = "raise"
              THEN /\ th' = [th EXCEPT ![t] = IdleThread]
                   /\ ret' = Returns(t, ResetFailed)
                   /\ UNCHANGED reset_tokens
              ELSE /\ reset_tokens' = MarkUsed(th[t].found)
                   /\ th' = [th EXCEPT ![t].pc = "revoke"]
                   /\ ret' = NoReturn
    /\ UNCHANGED <<now, ticks, envVars, schedVars, tokenVars, sw, usuarios, resets,
                   histVars>>

\* lines 200-209: token_manager.revoke_all_user_tokens(user_id,
\* "password_reset"), which returns 0 when its store call raises, and the
\* return of success
ResetRevokeAll(t) ==
    /\ th[t].op = "reset_password"
    /\ th[t].pc = "revoke"
    /\ \E outcome \in StoreOutcomes :
          LET matched == IF outcome = "ok" THEN RevokeAllMatch(th[t].user)
                                           ELSE {}
          IN  /\ refresh_tokens' = MarkRevoked(matched, "password_reset")
              /\ ret' = Returns(t, ResetSucceeded(Cardinality(matched)))
    /\ redeemedOk' = redeemedOk \cup {th[t].token}
    /\ th' = [th EXCEPT ![t] = IdleThread]
    /\ UNCHANGED <<now, ticks, envVars, schedVars, issued, sw, resetVars, rotations,
                   revokedOk>>

(***************************************************************************)
(* RefreshTokenManager.get_token_stats: one aggregate, grouped by          *)
(* is_active, folded into a dictionary.                                    *)
(***************************************************************************)
\* mutant: the groups count the users that have records, not the records
GroupsOfUsers ==
    {[id |-> b,
      count |-> Cardinality({r.user_id : r \in {q \in refresh_tokens :
                                                    q.is_active = b}})] :
        b \in {r.is_active : r \in refresh_tokens}}

\* aggregate([{"$group": {"_id": "$is_active", "count": {"$sum": 1}}}])
Groups ==
    {[id |-> b,
      count |-> Cardinality({r \in refresh_tokens : r.is_active = b})] :
        b \in {r.is_active : r \in refresh_tokens}}

\* what the loop over the groups leaves in result[...] for the group b
Counted(groups, b) ==
    IF \E stat \in groups : stat.id = b
        THEN (CHOOSE stat \in groups : stat.id = b).count
        ELSE 0

\* the dictionary get_token_stats returns; all zeros when the store raised
TokenStats(outcome) ==
    IF outcome = "raise"
        THEN NoStats
        ELSE LET active == Counted(Groups, TRUE)
                 inactive == Counted(Groups, FALSE)
             IN  [active |-> active, inactive |-> inactive,
                  total |-> active + inactive]

GotStats(stats) ==
    Return("get_token_stats", NoToken, "", [NoResult EXCEPT !.stats = stats])

GetTokenStats ==
    /\ \E outcome \in StoreOutcomes : ret' = GotStats(TokenStats(outcome))
    /\ UNCHANGED <<now, ticks, envVars, schedVars, tokenVars, th, sw,
                   resetVars, histVars>>

(***************************************************************************)
(* TokenCleanupScheduler: start() and stop(), called by control threads,   *)
(* and _cleanup_loop, run by the threads start() creates.                  *)
(***************************************************************************)
Controllers == {"c1", "c2"}
LoopThreads == 1..MaxLoops
\* self.thread = None
NoThread == 0

\* a loop thread start() has not created yet; failed and stopped are
\* history: the sweep of this iteration hit an error, stop() cleared the
\* flag since this thread was started
UnbornLoop == [pc |-> "unborn", failed |-> FALSE, stopped |-> FALSE]

\* a control thread between calls
IdleControl == [op |-> "none", pc |-> "idle", joins |-> NoThread]

Started == {l \in LoopThreads : loops[l].pc # "unborn"}
Alive == {l \in Started : loops[l].pc # "done"}
Starting == {c \in Controllers : ctl[c].pc \in {"set", "spawn"}}

SchedulerReturn(op) == Return(op, NoToken, "", NoResult)

\* start(): if not self.running
StartCheck(c) ==
    /\ ctl[c].pc = "idle"
    /\ IF running
           THEN /\ ret' = SchedulerReturn("start")
                /\ UNCHANGED ctl
           ELSE /\ Cardinality(Started) + Cardinality(Starting) < MaxLoops
                /\ ctl' = [ctl EXCEPT ![c] = [IdleControl EXCEPT
                                                 !.op = "start", !.pc = "set"]]
                /\ ret' = NoReturn
    /\ UNCHANGED <<now, ticks, envVars, tokenVars, th, sw, resetVars, histVars,
                   running, thread, loops>>

\* start(): self.running = True
StartSet(c) ==
    /\ ctl[c].pc = "set"
    /\ running' = TRUE
    /\ ctl' = [ctl EXCEPT ![c].pc = "spawn"]
    /\ ret' = NoReturn
    /\ UNCHANGED <<now, ticks, envVars, tokenVars, th, sw, resetVars, histVars,
                   thread, loops>>

\* start(): self.thread = Thread(target=self._cleanup_loop, daemon=True);
\* self.thread.start(); the call returns
StartSpawn(c) ==
    /\ ctl[c].pc = "spawn"
    /\ LET l == Cardinality(Started) + 1
       IN  /\ thread' = l
           /\ loops' = [loops EXCEPT ![l].pc = "check"]
    /\ ctl' = [ctl EXCEPT ![c] = IdleControl]
    /\ ret' = SchedulerReturn("start")
    /\ UNCHANGED <<now, ticks, envVars, tokenVars, th, sw, resetVars, histVars,
                   running>>

\* stop(): self.running = False
StopSignal(c) ==
    /\ ctl[c].pc = "idle"
    /\ running' = FALSE
    /\ loops' = [l \in LoopThreads |->
                    IF l \in Alive THEN [loops[l] EXCEPT !.stopped = TRUE]
                                   ELSE loops[l]]
    /\ ctl' = [ctl EXCEPT ![c] = [IdleControl EXCEPT
                                     !.op = "stop", !.pc = "read"]]
    /\ ret' = NoReturn
    /\ UNCHANGED <<now, ticks, envVars, tokenVars, th, sw, resetVars, histVars,
                   thread>>

\* stop(): if self.thread
StopRead(c) ==
    /\ ctl[c].pc = "read"
    /\ IF thread = NoThread
           THEN /\ ctl' = [ctl EXCEPT ![c] = IdleControl]
                /\ ret' = SchedulerReturn("stop")
           ELSE /\ ctl' = [ctl EXCEPT ![c].pc = "join", ![c].joins = thread]
                /\ ret' = NoReturn
    /\ UNCHANGED <<now, ticks, envVars, tokenVars, th, sw, resetVars, histVars,
                   running, thread, loops>>

\* stop(): self.thread.join() returns once that thread has finished
StopJoin(c) ==
    /\ ctl[c].pc = "join"
    /\ loops[ctl[c].joins].pc = "done"
    /\ ctl' = [ctl EXCEPT ![c] = IdleControl]
    /\ ret' = SchedulerReturn("stop")
    /\ UNCHANGED <<now, ticks, envVars, tokenVars, th, sw, resetVars, histVars,
                   running, thread, loops>>

\* _cleanup_loop: while self.running
LoopCheck(l) ==
    /\ loops[l].pc = "check"
    /\ loops' = [loops EXCEPT ![l].pc = IF running THEN "sweep" ELSE "done",
                              ![l].failed = FALSE]
    /\ ret' = NoReturn
    /\ UNCHANGED <<now, ticks, envVars, tokenVars, th, sw, resetVars, histVars,
                   running, thread, ctl>>

\* _cleanup_loop: cleaned_count = self.token_manager.cleanup_expired_tokens(),
\* the two delete_many of that call; a delete that raises makes it return 0
LoopSweep(l) ==
    /\ loops[l].pc = "sweep"
    /\ \E first \in StoreOutcomes, second \in StoreOutcomes :
          LET kept == refresh_tokens \ ExpiredMatch
          IN  /\ refresh_tokens' =
                    IF first = "raise" THEN refresh_tokens
                    ELSE IF second = "raise" THEN kept
                    ELSE kept \ OldRevokedMatch
              /\ ret' = IF first = "raise" \/ second = "raise"
                            THEN Cleaned(0)
                            ELSE Cleaned(Cardinality(ExpiredMatch)
                                    + Cardinality(kept \cap OldRevokedMatch))
              /\ loops' = [loops EXCEPT
                              ![l].pc = "stats",
                              ![l].failed = (first = "raise"
                                             \/ second = "raise")]
    /\ UNCHANGED <<now, ticks, envVars, issued, th, sw, resetVars, histVars,
                   running, thread, ctl>>

\* _cleanup_loop: stats = self.token_manager.get_token_stats()
LoopStats(l) ==
    /\ loops[l].pc = "stats"
    /\ \E outcome \in StoreOutcomes :
          /\ ret' = GotStats(TokenStats(outcome))
          /\ loops' = [loops EXCEPT
                          ![l].pc = "sleep",
                          ![l].failed = (loops[l].failed \/ outcome = "raise")]
    /\ UNCHANGED <<now, ticks, envVars, tokenVars, th, sw, resetVars, histVars,
                   running, thread, ctl>>

\* mutant: the loop goes on only after a sweep without error
LoopWakeAfterSuccess(l) ==
    /\ loops[l].pc = "sleep"
    /\ ~loops[l].failed
    /\ loops' = [loops EXCEPT ![l].pc = "check"]
    /\ ret' = NoReturn
    /\ UNCHANGED <<now, ticks, envVars, tokenVars, th, sw, resetVars, histVars,
                   running, thread, ctl>>

\* _cleanup_loop: time.sleep(self.interval_hours * 3600) returns, in the try
\* branch and after the except branch alike
LoopWake(l) ==
    /\ loops[l].pc = "sleep"
    /\ loops' = [loops EXCEPT ![l].pc = "check"]
    /\ ret' = NoReturn
    /\ UNCHANGED <<now, ticks, envVars, tokenVars, th, sw, resetVars, histVars,
                   running, thread, ctl>>

LoopStep(l) == LoopCheck(l) \/ LoopSweep(l) \/ LoopStats(l) \/ LoopWake(l)

(***************************************************************************)
(* The session routes of init_auth_routes: logout, revoke_session and      *)
(* revoke_all_sessions.  ret carries the response: status, the body's      *)
(* success and message (and revoked_count), and whether clear_auth_cookies *)
(* ran on it.                                                              *)
(***************************************************************************)
RouteResponse(status, success, message) ==
    [NoResult EXCEPT !.status = status, !.ok = success, !.message = message]

\* logout: {"success": True, "message": ...}, clear_auth_cookies, 200
LoggedOut ==
    [RouteResponse(200, TRUE, "Logged out successfully") EXCEPT
        !.cleared = TRUE]

\* the except branch of a route
InternalError == RouteResponse(500, FALSE, "Internal server error")

\* logout: revoke_token(refresh_token, "user_logout") if the cookie holds a
\* token, its result not read; revoke_token returns False when its update
\* raises
Logout(t, refresh_token) ==
    /\ CanStart(t)
    /\ \E outcome \in StoreOutcomes :
          \E matched \in (IF refresh_token # NoToken /\ outcome = "ok"
                              THEN OneOf(RevokeMatch(refresh_token))
                              ELSE {{}}) :
              /\ refresh_tokens' = MarkRevoked(matched, "user_logout")
              /\ revokedOk' = IF matched # {}
                                  THEN revokedOk \cup {refresh_token}
                                  ELSE revokedOk
    /\ ret' = Return("logout", refresh_token, "", LoggedOut)
    /\ UNCHANGED <<now, ticks, envVars, schedVars, issued, th, sw, resetVars,
                   rotations, redeemedOk>>

\* mutant: the lookup without the owner
SessionMatchAnyUser(session_id, user_id) ==
    {r \in refresh_tokens : r.id = session_id /\ r.is_active}

\* find_one({"_id": ObjectId(session_id), "user_id": user_id,
\*           "is_active": True})
SessionMatch(session_id, user_id) ==
    {r \in refresh_tokens :
        r.id = session_id /\ r.user_id = user_id /\ r.is_active}

\* revoke_session, lines 222-233: the lookup of the session and the 404
RevokeSessionFind(t, user_id, session_id) ==
    /\ CanStart(t)
    /\ \E outcome \in StoreOutcomes :
          LET hit == SessionMatch(session_id, user_id)
              op == "revoke_session"
          IN  IF outcome = "raise"
                THEN /\ ret' = Return(op, NoToken, user_id, InternalError)
                     /\ UNCHANGED th
              ELSE IF hit = {}
                THEN /\ ret' = Return(op, NoToken, user_id,
                           RouteResponse(404, FALSE, "Session not found"))
                     /\ UNCHANGED th
              ELSE \E session \in hit :
                     /\ th' = [th EXCEPT ![t] =
                           [Call(op, "revoke", session.token, user_id)
                               EXCEPT !.found = session.id]]
                     /\ ret' = NoReturn
    /\ UNCHANGED <<now, ticks, envVars, schedVars, tokenVars, sw, resetVars,
                   histVars>>

\* revoke_session, lines 235-241: revoke_token(session["token"],
\* "manual_revocation") and the answer
RevokeSessionRevoke(t) ==
    /\ th[t].op = "revoke_session"
    /\ th[t].pc = "revoke"
    /\ \E outcome \in StoreOutcomes :
          \E matched \in (IF outcome = "ok" THEN OneOf(RevokeMatch(th[t].token))
                                            ELSE {{}}) :
              /\ refresh_tokens' = MarkRevoked(matched, "manual_revocation")
              /\ revokedOk' = IF matched # {}
                                  THEN revokedOk \cup {th[t].token}
                                  ELSE revokedOk
              /\ ret' = Returns(t,
                     IF matched # {}
                         THEN RouteResponse(200, TRUE, "Session revoked")
                         ELSE RouteResponse(500, FALSE,
                                            "Failed to revoke session"))
    /\ th' = [th EXCEPT ![t] = IdleThread]
    /\ UNCHANGED <<now, ticks, envVars, schedVars, issued, sw, resetVars,
                   rotations, redeemedOk>>

\* the sessions of the list the loop of revoke_all_sessions would revoke:
\* those that carry a token other than the cookie's
Revocable(sessions, current_refresh_token) ==
    {i \in DOMAIN sessions :
        /\ "token" \in DOMAIN sessions[i]
        /\ sessions[i].token # current_refresh_token}

\* revoke_all_sessions: get_user_sessions(user_id), then for each session
\* but the current one revoke_token(session['token'], "revoke_all_others");
\* a session without the key 'token' raises KeyError, answered with 500
RevokeAllSessions(t, user_id, current_refresh_token) ==
    /\ CanStart(t)
    /\ \E outcome \in StoreOutcomes :
          LET lists == SessionLists(user_id, outcome)
              op == "revoke_all_sessions"
          IN  IF lists = {}
                THEN /\ ret' = Return(op, current_refresh_token, user_id,
                           RouteResponse(200, TRUE, "Revoked sessions"))
                     /\ UNCHANGED <<refresh_tokens, revokedOk>>
              ELSE \E sessions \in lists :
                     IF \E i \in DOMAIN sessions :
                            "token" \notin DOMAIN sessions[i]
                       THEN /\ ret' = Return(op, current_refresh_token,
                                         user_id, InternalError)
                            /\ UNCHANGED <<refresh_tokens, revokedOk>>
                       ELSE LET tokens == {sessions[i].token :
                                    i \in Revocable(sessions,
                                                    current_refresh_token)}
                                matched == {r \in refresh_tokens :
                                    r.token \in tokens /\ r.is_active}
                            IN  /\ refresh_tokens' =
                                      MarkRevoked(matched, "revoke_all_others")
                                /\ revokedOk' = revokedOk
                                      \cup {r.token : r \in matched}
                                /\ ret' = Return(op, current_refresh_token,
                                      user_id,
                                      [RouteResponse(200, TRUE,
                                                     "Revoked sessions")
                                          EXCEPT !.count =
                                                    Cardinality(matched)])
    /\ UNCHANGED <<now, ticks, envVars, schedVars, issued, th, sw, resetVars,
                   rotations, redeemedOk>>

(***************************************************************************)
(* Initial state: empty refresh_tokens and reset_tokens collections, the   *)
(* users registered, nobody in a call.                                     *)
(***************************************************************************)
InitStore ==
    /\ now = 0
    /\ ticks = 0
    /\ refresh_tokens = {}
    /\ issued = 0
    /\ th = [t \in Threads |-> IdleThread]
    /\ ret = NoReturn
    /\ sw = IdleSweeper
    /\ usuarios = [u \in Users |-> HashPassword("p0")]
    /\ reset_tokens = {}
    /\ resets = 0
    /\ rotations = [token \in Tokens |-> 0]
    /\ revokedOk = {}
    /\ redeemedOk = {}
    /\ running = FALSE
    /\ thread = NoThread
    /\ loops = [l \in LoopThreads |-> UnbornLoop]
    /\ ctl = [c \in Controllers |-> IdleControl]

Init == InitStore /\ faulty = FALSE /\ unique_index = TRUE
InitFaulty == InitStore /\ faulty = TRUE /\ unique_index = TRUE
\* _ensure_indexes logged "Failed to create indexes" and went on
InitUnindexed == InitStore /\ faulty = TRUE /\ unique_index = FALSE

\* the calls of the token manager request thread t may make for users
TokenCall(t, users, ips) ==
    \/ \E u \in users, ip \in ips : CreateRefreshToken(t, u, ip)
    \/ \E token \in Tokens, ip \in ips : RotateFind(t, token, ip)
    \/ RotateUpdate(t)
    \/ RotateInsert(t)
    \/ \E token \in Tokens : RevokeToken(t, token, "manual_revocation")
    \/ \E u \in users : RevokeAllUserTokens(t, u, "security_action")

\* the token manager under concurrent request threads
Next == \E t \in Threads : TokenCall(t, Users, {"ip1"})

\* the token manager under one request thread with one user's sessions, the
\* sweeper and the clock
NextSweep ==
    \/ TokenCall("t1", {"u1"}, {"ip1"})
    \/ CleanupExpired
    \/ CleanupRevoked
    \/ Tick

\* the token manager under one request thread
NextSolo == TokenCall("t1", Users, {"ip1"})

\* one request thread whose requests come from two addresses, the session
\* lists of the users, and the clock by the hour
NextSession ==
    \/ TokenCall("t1", Users, Ips)
    \/ \E u \in Users : GetUserSessions("t1", u)
    \/ ticks < MaxSessionTicks /\ TickBy(1)

\* the password-reset flow of one user, next to logins of all
NextReset ==
    \/ \E t \in Threads, u \in Users :
          issued < MaxSessions /\ CreateRefreshToken(t, u, "ip1")
    \/ \E t \in Threads, e \in {"u1", "nobody"} : RequestDelete(t, e)
    \/ \E t \in Threads : RequestInsert(t)
    \/ \E t \in Threads, token \in ResetTokens, p \in Passwords \ {"p0"} :
          ResetFind(t, token, p)
    \/ \E t \in Threads : ResetPassword(t)
    \/ \E t \in Threads : ResetMarkUsed(t)
    \/ \E t \in Threads : ResetRevokeAll(t)
    \/ ticks < MaxResetTicks /\ TickBy(RESET_HOURS)

\* the cleanup scheduler: two control threads calling start() and stop(),
\* and the loop threads
NextScheduler ==
    \/ \E c \in Controllers : StartCheck(c)
    \/ \E c \in Controllers : StartSet(c)
    \/ \E c \in Controllers : StartSpawn(c)
    \/ \E c \in Controllers : StopSignal(c)
    \/ \E c \in Controllers : StopRead(c)
    \/ \E c \in Controllers : StopJoin(c)
    \/ \E l \in LoopThreads : LoopCheck(l)
    \/ \E l \in LoopThreads : LoopSweep(l)
    \/ \E l \in LoopThreads : LoopStats(l)
    \/ \E l \in LoopThreads : LoopWake(l)

\* the sweeper next to one request thread, with get_token_stats
NextStats ==
    \/ TokenCall("t1", {"u1"}, {"ip1"})
    \/ CleanupExpired
    \/ CleanupRevoked
    \/ GetTokenStats
    \/ Tick

\* password-reset requests for every email, the clock next to them
NextRequest ==
    \/ \E t \in Threads, e \in Emails : RequestDelete(t, e)
    \/ \E t \in Threads : RequestInsert(t)
    \/ ticks < MaxResetTicks /\ TickBy(RESET_HOURS)

\* the calls of request thread t on the session routes, next to logins and
\* refreshes
RouteCall(t) ==
    \/ \E u \in Users : CreateRefreshToken(t, u, "ip1")
    \/ \E token \in Tokens : RotateFind(t, token, "ip1")
    \/ RotateUpdate(t)
    \/ RotateInsert(t)
    \/ \E token \in Tokens \cup {NoToken} : Logout(t, token)
    \/ \E u \in Users, id \in Tokens : RevokeSessionFind(t, u, id)
    \/ RevokeSessionRevoke(t)
    \/ \E u \in Users, token \in Tokens \cup {NoToken} :
          RevokeAllSessions(t, u, token)

\* the session routes under concurrent request threads
NextRoutes == \E t \in Threads : RouteCall(t)

\* the session routes under one request thread
NextRoutesSolo == RouteCall("t1")

Spec == Init /\ [][Next]_vars
SpecFaulty == InitFaulty /\ [][Next]_vars
SpecUnindexed == InitUnindexed /\ [][NextSolo]_vars
SpecSweep == Init /\ [][NextSweep]_vars
SpecSweepFaulty == InitFaulty /\ [][NextSweep]_vars
SpecSession == Init /\ [][NextSession]_vars
SpecReset == Init /\ [][NextReset]_vars
SpecResetFaulty == InitFaulty /\ [][NextReset]_vars
SpecRequest == Init /\ [][NextRequest]_vars
SpecRoutes == Init /\ [][NextRoutes]_vars
SpecRoutesFaulty == InitFaulty /\ [][NextRoutesSolo]_vars
SpecStats == Init /\ [][NextStats]_vars
SpecScheduler == InitFaulty /\ [][NextScheduler]_vars
\* a started thread is scheduled again and again, and time.sleep returns
SpecSchedulerFair ==
    SpecScheduler /\ \A l \in LoopThreads : WF_vars(LoopStep(l))

(***************************************************************************)
(* Properties.                                                             *)
(***************************************************************************)
RotateOp == "validate_and_rotate_token"

\* the step is a validate_and_rotate_token call on token that ends at its
\* lookup with valid=False, the collection left as it was
RejectedAtLookup(t, token) ==
    /\ ret'.op = RotateOp
    /\ ret'.token = token
    /\ ~ret'.res.valid
    /\ ret'.res.new_token = NoToken
    /\ th'[t] = IdleThread
    /\ refresh_tokens' = refresh_tokens

\* C1: of the validate_and_rotate_token calls made with one token, however
\* their store steps interleave, at most one returns valid=True.
C1_AtMostOneRotationPerToken == \A token \in Tokens : rotations[token] <= 1

\* C2: once a validate_and_rotate_token(T) call has returned valid=True, a
\* call on T that starts afterwards is rejected, whatever issue, rotate,
\* revoke, revoke-all, cleanup and clock steps ran in between.
C2_RotatedTokenNeverValidatesAgain ==
    [][\A t \in Threads, token \in Tokens, ip \in Ips :
          (rotations[token] > 0 /\ RotateFind(t, token, ip))
              => RejectedAtLookup(t, token)]_vars

\* a rotated token was presented again after a sweep removed its document
C2_Witness ==
    /\ ret.op = RotateOp
    /\ ret.res = Rejected
    /\ ret.token \in Tokens
    /\ rotations[ret.token] > 0
    /\ \A r \in refresh_tokens : r.token # ret.token

\* C3: a validate_and_rotate_token(T) that succeeds for a token of user U
\* returns a token that differs from T and is stored as a new active
\* document of U, which a following call finds, while T is found no more;
\* and a call that finds its token active and unexpired succeeds and returns
\* the owner.
C3_RotationIssuesFreshTokenOfSameUser ==
    [][/\ \A t \in Threads, token \in Tokens, ip \in Ips :
             (RotateFind(t, token, ip) /\ FindActive(token) # {})
                => /\ th'[t].pc = "update"
                   /\ \A r \in FindActive(token) : th'[t].user = r.user_id
       /\ \A t \in Threads :
             RotateInsert(t)
                => \E new \in Tokens :
                       /\ ret'.res.new_token = new
                       /\ ret'.res.valid
                       /\ ret'.res.user_id = th[t].user
                       /\ new # th[t].token
                       /\ \A r \in refresh_tokens : r.token # new
                       /\ \A r \in refresh_tokens' :
                             r.token = th[t].token => r.user_id = th[t].user
                       /\ (FindActive(new))' =
                             {r \in refresh_tokens' :
                                 /\ r.token = new
                                 /\ r.user_id = th[t].user
                                 /\ r.is_active}
                       /\ Cardinality((FindActive(new))') = 1
                       /\ \A old \in Tokens :
                             old = th[t].token => (FindActive(old))' = {}]_vars

\* the chain T1 -> T2 -> T3 of one user
C3_Witness ==
    /\ ret.op = RotateOp
    /\ ret.res.valid
    /\ ret.token = 2
    /\ ret.res.new_token = 3
    /\ rotations[1] = 1
    /\ \A r \in refresh_tokens : r.user_id = ret.res.user_id
    /\ FindActive(3) # {}

\* C4: a validate_and_rotate_token call whose token's document has
\* expires_at at or before the time of the lookup is rejected, whether the
\* document is active or not.
C4_ExpiredTokenNeverValidates ==
    [][\A t \in Threads, token \in Tokens, ip \in Ips :
          (/\ RotateFind(t, token, ip)
           /\ \A r \in refresh_tokens : r.token = token => r.expires_at <= now)
              => RejectedAtLookup(t, token)]_vars

\* an active document presented at the very hour it expires
C4_Witness ==
    /\ ret.op = RotateOp
    /\ ret.res = Rejected
    /\ \E r \in refresh_tokens :
          r.token = ret.token /\ r.is_active /\ r.expires_at = now

\* C5: revoke_token(T) on an active token returns True; once a
\* revoke_token(T) has returned True, a later revoke_token(T) returns False
\* without raising and a later validate_and_rotate_token(T) is rejected;
\* revoke_token on a token that is not in the collection returns False.
C5_RevokeOnceThenFalse ==
    [][/\ \A t \in Threads, token \in Tokens :
             RevokeToken(t, token, "manual_revocation")
                => /\ ~ret'.res.raised
                   /\ (\E r \in refresh_tokens : r.token = token /\ r.is_active)
                         => ret'.res.ok
                   /\ token \in revokedOk => ~ret'.res.ok
                   /\ (\A r \in refresh_tokens : r.token # token)
                         => ~ret'.res.ok /\ refresh_tokens' = refresh_tokens
       /\ \A t \in Threads, token \in Tokens, ip \in Ips :
             (token \in revokedOk /\ RotateFind(t, token, ip))
                => RejectedAtLookup(t, token)]_vars

\* the second revoke_token(T) has returned False
C5_Witness ==
    /\ ret.op = "revoke_token"
    /\ ret.token \in revokedOk
    /\ ~ret.res.ok
    /\ ~ret.res.raised

\* the documents of the collection rs other than the one of token
Others(rs, token) == {r \in rs : r.token # token}

\* C6: revoke_token(T1) changes no document but T1's, and every other
\* token is found by the lookup of validate_and_rotate_token exactly as
\* before.
C6_RevokeLeavesOtherTokens ==
    [][\A t \in Threads, token \in Tokens :
          RevokeToken(t, token, "manual_revocation")
             => /\ Others(refresh_tokens', token) = Others(refresh_tokens, token)
                /\ \A other \in Tokens \ {token} :
                      (FindActive(other))' = FindActive(other)]_vars

\* T1 revoked while T2 of the same user is active and found by the lookup
C6_Witness ==
    /\ ret.op = "revoke_token"
    /\ ret.res.ok
    /\ \E r1, r2 \in refresh_tokens :
          /\ r1.token = ret.token
          /\ ~r1.is_active
          /\ r2.token # r1.token
          /\ r2.user_id = r1.user_id
          /\ r2 \in FindActive(r2.token)

\* C7: a revoke_all_user_tokens(U) that has returned leaves every document
\* of U that was active inactive and not found by the lookup of
\* validate_and_rotate_token, and leaves the documents of the other users,
\* and what the lookup finds for their tokens, as they were.
C7_RevokeAllDeactivatesUser ==
    [][\A t \in Threads, u \in Users :
          RevokeAllUserTokens(t, u, "security_action")
             => /\ \A r \in refresh_tokens :
                      (r.user_id = u /\ r.is_active)
                         => /\ \A q \in refresh_tokens' :
                                  q.id = r.id => ~q.is_active
                            /\ (FindActive(r.token))' = {}
                /\ {r \in refresh_tokens' : r.user_id # u}
                      = {r \in refresh_tokens : r.user_id # u}
                /\ \A r \in refresh_tokens :
                      r.user_id # u
                         => (FindActive(r.token))' = FindActive(r.token)]_vars

\* C8: a reset_password call on a reset token that an earlier call has
\* redeemed ends at its lookup with failure and leaves usuarios as it was;
\* and a call whose lookup finds its token unused and unexpired sets the
\* password, marks the token and returns success.
C8_ResetTokenSingleUse ==
    [][/\ \A t \in Threads, token \in ResetTokens, p \in Passwords :
             (ResetFind(t, token, p) /\ token \in redeemedOk)
                => /\ ret'.op = "reset_password"
                   /\ ret'.token = token
                   /\ ~ret'.res.ok
                   /\ th'[t] = IdleThread
                   /\ usuarios' = usuarios
                   /\ reset_tokens' = reset_tokens
       /\ \A t \in Threads, token \in ResetTokens, p \in Passwords :
             (ResetFind(t, token, p) /\ FindReset(token) # {})
                => th'[t].pc = "password" /\ th'[t].password = p
       /\ \A t \in Threads :
             ResetPassword(t)
                => /\ usuarios'[th[t].user] = HashPassword(th[t].password)
                   /\ th'[t].pc = "used"
       /\ \A t \in Threads : ResetMarkUsed(t) => th'[t].pc = "revoke"
       /\ \A t \in Threads :
             ResetRevokeAll(t)
                => /\ ret'.op = "reset_password"
                   /\ ret'.token = th[t].token
                   /\ ret'.res.ok]_vars

\* a second reset_password on a redeemed token has failed, the password
\* being the one the first call set
C8_Witness ==
    /\ ret.op = "reset_password"
    /\ ret.token \in redeemedOk
    /\ ret.res = ResetInvalid
    /\ \E r \in reset_tokens : r.token = ret.token /\ r.used
    /\ usuarios["u1"] # HashPassword("p0")

\* C9: when reset_password returns success, every refresh token of the
\* user that was active when the call began is inactive.
C9_ResetRevokesSessions ==
    [][\A t \in Threads :
          (ResetRevokeAll(t) /\ ret'.res.ok)
             => \A r \in refresh_tokens' :
                   r.id \in th[t].snap => ~r.is_active]_vars

\* when a document was deactivated: by revocation or by rotation
DeactivatedAt(r) ==
    IF r.revoked_at # NoTime THEN r.revoked_at ELSE r.rotated_at

\* the inactive documents deactivated before the retention window
OldInactive ==
    {r \in refresh_tokens :
        /\ ~r.is_active
        /\ DeactivatedAt(r) # NoTime
        /\ DeactivatedAt(r) < now - Days(RETENTION_DAYS)}

\* C10: cleanup_expired_tokens removes exactly the documents with
\* expires_at in the past, then exactly the inactive documents deactivated,
\* by revocation or by rotation, more than 7 days ago, and returns how many
\* it removed.
C10_CleanupRemovesExpiredAndOldInactive ==
    [][/\ CleanupExpired
             => /\ refresh_tokens' =
                      {r \in refresh_tokens : ~(r.expires_at < now)}
                /\ sw'.expired_count =
                      Cardinality({r \in refresh_tokens : r.expires_at < now})
       /\ CleanupRevoked
             => /\ refresh_tokens' = refresh_tokens \ OldInactive
                /\ ret'.op = "cleanup_expired_tokens"
                /\ ret'.res.count =
                      sw.expired_count + Cardinality(OldInactive)]_vars

\* the documents a step inserts
Added == {q \in refresh_tokens' : \A r \in refresh_tokens : r.id # q.id}

\* C11: a document enters the collection active, and no step turns is_active
\* of a document from False to True.
C11_InactiveStaysInactive ==
    [][/\ \A q \in Added : q.is_active
       /\ \A r \in refresh_tokens, q \in refresh_tokens' :
             (q.id = r.id /\ ~r.is_active) => ~q.is_active]_vars

\* a document two operations deactivated, a revocation and a rotation, is
\* inactive
C11_Witness ==
    \E r \in refresh_tokens :
        ~r.is_active /\ r.revoked_at # NoTime /\ r.rotated_at # NoTime

\* C12: no step writes revoked_at, revocation_reason, rotated_at or
\* rotation_reason on a document that is already inactive.
C12_MetadataWrittenOnce ==
    [][\A r \in refresh_tokens, q \in refresh_tokens' :
          (q.id = r.id /\ ~r.is_active)
             => /\ q.revoked_at = r.revoked_at
                /\ q.revocation_reason = r.revocation_reason
                /\ q.rotated_at = r.rotated_at
                /\ q.rotation_reason = r.rotation_reason]_vars

\* C13: no step changes token, user_id, expires_at, created_at or
\* session_info of a document of the collection; the document a rotation
\* inserts is new and expires 30 days after the rotation.
C13_CreationFieldsNeverChange ==
    [][/\ \A r \in refresh_tokens, q \in refresh_tokens' :
             q.id = r.id
                => /\ q.token = r.token
                   /\ q.user_id = r.user_id
                   /\ q.expires_at = r.expires_at
                   /\ q.created_at = r.created_at
                   /\ q.session_info = r.session_info
       /\ \A t \in Threads :
             RotateInsert(t)
                => /\ Cardinality(Added) = 1
                   /\ \A q \in Added :
                         /\ q.expires_at = now + Days(TOKEN_DAYS)
                         /\ q.created_at = now
                         /\ q.token # th[t].token]_vars

\* a document rotated an hour after its creation from another address keeps
\* its expiry and its snapshot, next to the new document with its own
C13_Witness ==
    \E r, q \in refresh_tokens :
        /\ ~r.is_active
        /\ r.rotated_at > r.created_at
        /\ r.expires_at = r.created_at + Days(TOKEN_DAYS)
        /\ q.created_at = r.rotated_at
        /\ q.expires_at = q.created_at + Days(TOKEN_DAYS)
        /\ q.session_info # r.session_info

\* C14: no two documents of the collection have the same token value, and
\* a step inserts no document whose token value the collection holds; a
\* create_refresh_token that raises leaves the collection as it was.
C14_TokenValuesUnique ==
    [][/\ \A r, q \in refresh_tokens' : r.token = q.token => r = q
       /\ \A q \in Added : \A r \in refresh_tokens : r.token # q.token
       /\ \A t \in Threads, u \in Users, ip \in Ips :
             (CreateRefreshToken(t, u, ip) /\ ret'.res.raised)
                => refresh_tokens' = refresh_tokens]_vars

\* the one answer of the refresh route to a token that is not accepted
InvalidTokenResponse ==
    [status |-> 401, message |-> "Invalid or expired token",
     refresh_cookie |-> NoToken]

\* C15: a validate_and_rotate_token call on a token that is absent, expired
\* or inactive returns valid=False with the one error text and nothing
\* else, the refresh route answers it with 401 and that text, and the
\* collection is left as it was.
C15_RejectionsIndistinguishable ==
    [][\A t \in Threads, token \in Tokens, ip \in Ips :
          (/\ RotateFind(t, token, ip)
           /\ \A r \in refresh_tokens :
                 r.token = token => (~r.is_active \/ r.expires_at <= now))
              => /\ ret'.op = RotateOp
                 /\ ret'.token = token
                 /\ ret'.res =
                       [NoResult EXCEPT !.error = "Invalid or expired token"]
                 /\ RefreshResponse(ret'.res) = InvalidTokenResponse
                 /\ th'[t] = IdleThread
                 /\ refresh_tokens' = refresh_tokens]_vars

\* a revoked token that has not expired was presented and rejected
C15_Witness ==
    /\ ret.op = RotateOp
    /\ RefreshResponse(ret.res) = InvalidTokenResponse
    /\ \E r \in refresh_tokens :
          /\ r.token = ret.token
          /\ ~r.is_active
          /\ r.revoked_at # NoTime
          /\ r.expires_at > now

\* C16: a step of validate_and_rotate_token, revoke_token or
\* revoke_all_user_tokens on documents its filter matches either does its
\* work or ends the call with a failure raised to the caller: not with
\* valid=False and the 401 of the refresh route, not with False, not with 0.
C16_StoreFailureSurfaced ==
    [][/\ \A t \in Threads, token \in Tokens, ip \in Ips :
             (RotateFind(t, token, ip) /\ FindActive(token) # {})
                => \/ th'[t].pc = "update"
                   \/ /\ ret'.res.raised
                      /\ RefreshResponse(ret'.res).status # 401
       /\ \A t \in Threads :
             RotateUpdate(t) => (th'[t].pc = "insert" \/ ret'.res.raised)
       /\ \A t \in Threads :
             RotateInsert(t) => (ret'.res.valid \/ ret'.res.raised)
       /\ \A t \in Threads, token \in Tokens :
             (RevokeToken(t, token, "manual_revocation")
                 /\ RevokeMatch(token) # {})
                => (ret'.res.ok \/ ret'.res.raised)
       /\ \A t \in Threads, u \in Users :
             (RevokeAllUserTokens(t, u, "security_action")
                 /\ RevokeAllMatch(u) # {})
                => (ret'.res.count > 0 \/ ret'.res.raised)]_vars

\* C17: a create_refresh_token call either raises, returns no token and
\* leaves the collection as it was, the login route answering 500 with no
\* refresh cookie; or it adds one active document of the user and returns
\* its token, which the login route sets as the cookie.
C17_FailedIssueYieldsNoSession ==
    [][\A t \in Threads, u \in Users, ip \in Ips :
          CreateRefreshToken(t, u, ip)
             => \/ /\ ret'.res.raised
                   /\ ret'.res.new_token = NoToken
                   /\ refresh_tokens' = refresh_tokens
                   /\ LoginResponse(ret'.res) =
                         [status |-> 500, message |-> "Internal server error",
                          refresh_cookie |-> NoToken]
                \/ /\ ~ret'.res.raised
                   /\ refresh_tokens \subseteq refresh_tokens'
                   /\ Cardinality(Added) = 1
                   /\ \A q \in Added :
                         /\ q.token = ret'.res.new_token
                         /\ q.user_id = u
                         /\ q.is_active
                         /\ LoginResponse(ret'.res).status = 200
                         /\ LoginResponse(ret'.res).refresh_cookie = q.token]_vars

\* a login whose insert failed: no document, no cookie
C17_Witness ==
    /\ ret.op = "create_refresh_token"
    /\ ret.res.raised
    /\ LoginResponse(ret.res).refresh_cookie = NoToken
    /\ \A r \in refresh_tokens : r.user_id # ret.user

\* C18: whatever address the request comes from, a validate_and_rotate_token
\* call whose lookup finds the token goes on, deactivates the document found
\* and nothing else, and inserts one active document of the same user with
\* the request's address as its snapshot, returning valid=True.
C18_IpChangeDoesNotBlock ==
    [][/\ \A t \in Threads, token \in Tokens, ip \in Ips :
             (RotateFind(t, token, ip) /\ FindActive(token) # {})
                => /\ th'[t].pc = "update"
                   /\ \E r \in FindActive(token) :
                         th'[t].found = r.id /\ th'[t].user = r.user_id
                   /\ refresh_tokens' = refresh_tokens
       /\ \A t \in Threads :
             RotateUpdate(t)
                => /\ \A r \in refresh_tokens :
                         r.id # th[t].found => r \in refresh_tokens'
                   /\ \A q \in refresh_tokens' :
                         q.id = th[t].found => ~q.is_active
                   /\ Added = {}
       /\ \A t \in Threads :
             RotateInsert(t)
                => /\ ret'.res.valid
                   /\ ret'.res.user_id = th[t].user
                   /\ refresh_tokens \subseteq refresh_tokens'
                   /\ Cardinality(Added) = 1
                   /\ \A q \in Added :
                         /\ q.user_id = th[t].user
                         /\ q.is_active
                         /\ q.token = ret'.res.new_token
                         /\ q.session_info.ip_address = th[t].ip]_vars

\* a token created from one address was rotated by a request from another
C18_Witness ==
    /\ ret.op = RotateOp
    /\ ret.res.valid
    /\ \E r, q \in refresh_tokens :
          /\ r.token = ret.token
          /\ ~r.is_active
          /\ q.token = ret.res.new_token
          /\ q.is_active
          /\ q.user_id = r.user_id
          /\ IpChanged(r, q.session_info.ip_address)

\* C19: get_user_sessions(U) returns one entry for each active document of
\* U and no other, by last_used descending, none with the field token.
C19_SessionsListsActiveRecords ==
    [][\A t \in Threads, u \in Users :
          GetUserSessions(t, u)
             => LET sessions == ret'.res.sessions
                    active == {r \in refresh_tokens :
                                  r.user_id = u /\ r.is_active}
                IN  /\ Len(sessions) = Cardinality(active)
                    /\ {sessions[i].id : i \in DOMAIN sessions}
                          = {r.id : r \in active}
                    /\ \A i, j \in DOMAIN sessions :
                          i < j => sessions[i].last_used >= sessions[j].last_used
                    /\ \A i \in DOMAIN sessions :
                          "token" \notin DOMAIN sessions[i]]_vars

\* the documents a step deletes
Removed == {r \in refresh_tokens : \A q \in refresh_tokens' : q.id # r.id}

\* C20: only the two deletes of cleanup_expired_tokens remove documents, and
\* a document removed is expired or was deactivated more than 7 days before.
C20_OnlySweepDeletesDeadRecords ==
    [][/\ Removed # {} => (CleanupExpired \/ CleanupRevoked)
       /\ \A r \in Removed :
             \/ r.expires_at < now
             \/ /\ ~r.is_active
                /\ DeactivatedAt(r) # NoTime
                /\ DeactivatedAt(r) < now - Days(RETENTION_DAYS)]_vars

\* a sweep has removed documents and left an active unexpired one
C20_Witness ==
    /\ ret.op = "cleanup_expired_tokens"
    /\ ret.res.count > 0
    /\ \E r \in refresh_tokens : r.is_active /\ r.expires_at > now
    /\ \E r \in refresh_tokens : ~r.is_active

\* C21: a loop thread whose sweep failed (a delete of cleanup_expired_tokens
\* or the aggregate of get_token_stats raised) attempts another sweep after
\* its sleep, unless the scheduler is stopped first
C21_FailedSweepRetried ==
    \A l \in LoopThreads :
        (loops[l].failed /\ loops[l].pc \in {"stats", "sleep"})
            ~> (loops[l].pc = "sweep" \/ ~running)

\* a loop thread asleep after a failed sweep, the scheduler still running
C21_Witness ==
    \E l \in LoopThreads :
        loops[l].failed /\ loops[l].pc = "sleep" /\ running


\* C22: once stop() has cleared the running flag, a loop thread that was
\* alive at that moment finishes the sweep it is in and ends at its next
\* check of the flag: the check never leads it into another sweep
C22_StoppedLoopExits ==
    [][\A l \in LoopThreads :
          /\ loops[l].stopped
             => /\ LoopCheck(l) => loops'[l].pc = "done"
                /\ LoopSweep(l) => loops'[l].pc = "stats"
                /\ LoopStats(l) => loops'[l].pc = "sleep"]_vars

\* C23: start() and stop() never wait for the loop thread: a stop() that
\* has reached its join finds the thread finished already
C23_ControlNeverWaits ==
    \A c \in Controllers :
        ctl[c].pc = "join" => loops[ctl[c].joins].pc = "done"


\* C24: however request_password_reset calls for one user interleave, the
\* collection reset_tokens holds at most one unexpired document per user
C24_OneLiveResetTokenPerUser ==
    \A r \in reset_tokens, q \in reset_tokens :
        (r.user_id = q.user_id /\ r.expires_at > now /\ q.expires_at > now)
            => r = q

\* C25: the response to a password-reset request is the one an email
\* without account gets, whether the email belongs to a user or not
C25_ResponseHidesAccount ==
    (ret.op = "request_password_reset" /\ ret.res.ok)
        => RequestResetResponse(ret.res)
              = RequestResetResponse(RequestAccepted)


C27_DeadResetTokenRefused ==
    [][/\ \A t \in Threads, token \in ResetTokens, p \in Passwords :
             (/\ ResetFind(t, token, p)
              /\ \A r \in reset_tokens :
                    r.token = token => (r.used \/ r.expires_at <= now))
                => /\ ~ret'.res.ok
                   /\ ret'.op = "reset_password"
                   /\ th'[t] = IdleThread
                   /\ usuarios' = usuarios
                   /\ reset_tokens' = reset_tokens
       /\ \A r \in reset_tokens, q \in reset_tokens' :
             (q.id = r.id /\ r.used) => q.used]_vars

\* a reset_password on an unused token has been refused in the hour the
\* token expires, and another token is marked used
C27_Witness ==
    /\ ret.op = "reset_password"
    /\ ret.res = ResetInvalid
    /\ \E r \in reset_tokens :
          r.token = ret.token /\ ~r.used /\ r.expires_at = now
    /\ \E r \in reset_tokens : r.used


\* the documents of rs that carry token
Records(rs, token) == {r \in rs : r.token = token}

\* thread t takes a step of a revoke_token or validate_and_rotate_token
\* call on token
StepOn(t, token) ==
    \/ RevokeToken(t, token, "manual_revocation")
    \/ \E ip \in Ips : RotateFind(t, token, ip)
    \/ th[t].op = RotateOp /\ th[t].token = token
           /\ (RotateUpdate(t) \/ RotateInsert(t))

\* C28: operations on different tokens are independent.  Every step of a
\* revoke_token or validate_and_rotate_token call on T1 leaves the documents
\* of every other token T2, and what the filters of both operations match
\* for T2, as they were (the token the rotation issues apart), and what the
\* call answers at its filter depends on the documents of T1 alone; so the
\* calls on T1 and T2 give the same results and documents in either order
\* and under every interleaving of their steps
C28_DistinctTokensIndependent ==
    [][\A t \in Threads, token \in Tokens :
          /\ StepOn(t, token)
                => \A other \in Tokens \ {token, ret'.res.new_token} :
                      /\ Records(refresh_tokens', other)
                            = Records(refresh_tokens, other)
                      /\ (FindActive(other))' = FindActive(other)
                      /\ (RevokeMatch(other))' = RevokeMatch(other)
          /\ RevokeToken(t, token, "manual_revocation")
                => ret'.res.ok = (\E r \in Records(refresh_tokens, token) :
                                    r.is_active)
          /\ (\E ip \in Ips : RotateFind(t, token, ip))
                => (th'[t].pc = "update")
                      = (\E r \in Records(refresh_tokens, token) :
                            r.is_active /\ r.expires_at > now)]_vars

\* a revoke_token on one token has returned True between the update and
\* the insert of a rotation of another token of the same user
C28_Witness ==
    /\ ret.op = "revoke_token"
    /\ ret.res.ok
    /\ \E t \in Threads, r \in refresh_tokens, q \in refresh_tokens :
          /\ th[t].op = RotateOp
          /\ th[t].pc = "insert"
          /\ r.id = th[t].found
          /\ r.rotated_at # NoTime
          /\ q.token = ret.token
          /\ q.token # r.token
          /\ q.user_id = r.user_id
          /\ q.revoked_at # NoTime
          /\ q.rotated_at = NoTime


\* C29: the dictionary get_token_stats returns has active = the number of
\* documents with is_active True, inactive = the number with is_active
\* False, and total = active + inactive = the number of documents, whatever
\* issues, rotations, revocations and sweeps came before
C29_StatsCountRecords ==
    ret.op = "get_token_stats"
        => LET stats == ret.res.stats
           IN  /\ stats.active
                     = Cardinality({r \in refresh_tokens : r.is_active})
               /\ stats.inactive
                     = Cardinality({r \in refresh_tokens : ~r.is_active})
               /\ stats.total = stats.active + stats.inactive
               /\ stats.total = Cardinality(refresh_tokens)

\* statistics taken over an active and an inactive document after the sweep
\* has deleted a third
C29_Witness ==
    /\ ret.op = "get_token_stats"
    /\ ret.res.stats.active >= 1
    /\ ret.res.stats.inactive >= 1
    /\ issued > Cardinality(refresh_tokens)


\* C30: validate_and_rotate_token is all-or-nothing: a call that returns
\* valid = False has left the collection as it was, so a call that has
\* deactivated the old document (it stands before its insert) returns
\* valid = True with the new token, stored and active
C30_RotationAllOrNothing ==
    [][\A t \in Threads :
          RotateInsert(t)
             => /\ ret'.res.valid
                /\ \E q \in refresh_tokens' :
                      q.token = ret'.res.new_token /\ q.is_active]_vars


\* C31: a rotation whose token was revoked after its lookup (the document
\* it found carries revoked_at when the call reaches its insert; a
\* revocation matches active documents only, so it came before the call's
\* own update) does not return valid = True and inserts no document
C31_RevokedSessionNotRotated ==
    [][\A t \in Threads :
          (/\ RotateInsert(t)
           /\ \E r \in refresh_tokens :
                 r.id = th[t].found /\ r.revoked_at # NoTime)
             => (~ret'.res.valid /\ Added = {})]_vars


\* C32: of the reset_password calls on one reset token at most one returns
\* success, however their lookups, password updates and markings
\* interleave: no call returns success for a token an earlier call has
\* returned success for
C32_OneRedemptionPerToken ==
    [][\A t \in Threads :
          (ResetRevokeAll(t) /\ th[t].token \in redeemedOk)
             => ~ret'.res.ok]_vars


\* C33: the revoke-all-sessions route, called by user U with refresh token
\* C in the cookie, leaves every document of U that was active and carries
\* another token inactive, leaves C's document as it was, and reports as
\* revoked_count how many documents it deactivated
C33_RevokeAllButCurrent ==
    [][\A t \in Threads, u \in Users, cookie \in Tokens \cup {NoToken} :
          RevokeAllSessions(t, u, cookie)
             => LET others == {r \in refresh_tokens :
                                  /\ r.user_id = u
                                  /\ r.is_active
                                  /\ r.token # cookie}
                IN  /\ \A r \in others :
                          \A q \in refresh_tokens' :
                              q.id = r.id => ~q.is_active
                    /\ \A r \in refresh_tokens :
                          r.token = cookie => r \in refresh_tokens'
                    /\ ret'.res.status = 200
                    /\ ret'.res.count = Cardinality(others)]_vars


\* C34: a revoke-session request whose session id names no active document
\* of the authenticated user is answered with 404 and changes no document;
\* and the revocation the route then runs changes one document at most, the
\* one it found, which belongs to that user and was active
C34_RevokeSessionOwnActiveOnly ==
    [][\A t \in Threads :
          /\ \A u \in Users, id \in Tokens :
                RevokeSessionFind(t, u, id)
                   => /\ refresh_tokens' = refresh_tokens
                      /\ (\A r \in refresh_tokens :
                              r.id = id => (r.user_id # u \/ ~r.is_active))
                            => /\ ret'.res.status = 404
                               /\ th'[t] = IdleThread
          /\ RevokeSessionRevoke(t)
                => \A r \in refresh_tokens :
                      r \notin refresh_tokens'
                         => /\ r.id = th[t].found
                            /\ r.user_id = th[t].user
                            /\ r.is_active]_vars

\* every session id names a document; a revoke-session request of a user
\* was answered with 404 while the route has revoked a session before and
\* another user has an active session
C34_Witness ==
    /\ ret.op = "revoke_session"
    /\ ret.res.status = 404
    /\ \A id \in Tokens : \E r \in refresh_tokens : r.id = id
    /\ \E r \in refresh_tokens : r.user_id # ret.user /\ r.is_active
    /\ \E r \in refresh_tokens : r.revocation_reason = "manual_revocation"


\* C35: the logout route answers 200 with success and cleared cookies
\* whatever the cookie holds; given a token it leaves that token found by
\* no lookup of validate_and_rotate_token any more, and it changes no
\* document of another token
C35_LogoutEndsSession ==
    [][\A t \in Threads, cookie \in Tokens \cup {NoToken} :
          Logout(t, cookie)
             => /\ ret'.res.status = 200
                /\ ret'.res.ok
                /\ ret'.res.cleared
                /\ Others(refresh_tokens', cookie)
                      = Others(refresh_tokens, cookie)
                /\ \A r \in refresh_tokens' :
                      r.token = cookie => ~r.is_active]_vars


\* C36: however start() and stop() calls of the control threads interleave,
\* at most one thread runs _cleanup_loop at any time
C36_OneLoopThread == Cardinality(Alive) <= 1


=============================================================================
